---- MODULE Spec2Model ----
(***************************************************************************)
(* Model of cfbs/core.py: the module index, the manifest document and the  *)
(* add engine (add_command, _add_modules, _add_using_url,                  *)
(* add_with_dependencies) acting on the build list of one CFBSConfig.      *)
(*                                                                         *)
(* Python dictionaries are records; a key that is absent from a dictionary *)
(* is the value None in the record (an absent "dependencies" list is the   *)
(* empty sequence, which the code treats the same way).  Names and paths   *)
(* are strings; the tests on their text (startswith, endswith, path        *)
(* existence) are tables over the names the model uses.                    *)
(***************************************************************************)
EXTENDS Integers, Sequences, FiniteSets, TLC

VARIABLES index, fs, path, build, persisted, pc, last

vars == <<index, fs, path, build, persisted, pc, last>>

(***************************************************************************)
(* Bounds of the model.                                                    *)
(***************************************************************************)
\* longest batch of references given to one add
MaxBatch == 2
\* nesting of add calls after which the interpreter raises RecursionError
MaxDepth == 5

(***************************************************************************)
(* Names.                                                                  *)
(***************************************************************************)
None == "<none>"

\* the user-requested marker
MARKER == "cfbs add"

\* keys of the catalog that are ordinary entries
Keys == {"a", "b", "c"}

\* references that may be typed in a direct add
Refs == {"a", "b", "c", "al", "al2", "bad", "x", "y", "d.json", "f.txt"}

\* the supported remote source
Url == "https://u"

\* one local file, written in two ways
LocalFile == {"d.json", "./d.json"}

\* one more file, whose name ends in none of .cf, .json and /
TextFile == {"f.txt", "./f.txt"}

StartsWithDotSlash(name) == name \in {"./d.json", "./f.txt"}

EndsWithCf(name) == FALSE

EndsWithJson(name) == name \in {"d.json", "./d.json"}

EndsWithSlash(name) == FALSE

\* os.path.isdir: no directory is among the paths of the model
IsDir(name) == FALSE

IsUrl(name) == name = Url

(***************************************************************************)
(* Sequences.                                                              *)
(***************************************************************************)
Range(s) == {s[i] : i \in DOMAIN s}

In(x, s) == \E i \in DOMAIN s : s[i] = x

SeqsUpTo(S, n) == UNION {[1..k -> S] : k \in 0..n}

BuildNames(b) == [i \in DOMAIN b |-> b[i].name]

(***************************************************************************)
(* Outcomes.  A call of the add engine returns the build list it leaves in *)
(* memory, the messages it printed and how it ended: "ok" (returned), a    *)
(* user_error (the process exits with the message) or an exception.        *)
(***************************************************************************)
Ok == [kind |-> "ok", names |-> <<>>]

Err(kind, names) == [kind |-> kind, names |-> names]

Result(b, msgs, status) == [build |-> b, msgs |-> msgs, status |-> status]

Msg(kind, module, other) == [kind |-> kind, module |-> module, other |-> other]

(***************************************************************************)
(* Module data.                                                            *)
(***************************************************************************)
\* an entry of the catalog, or of a remote manifest's "provides"
Entry(description, dependencies, alias, steps) ==
  [description |-> description, dependencies |-> dependencies,
   alias |-> alias, steps |-> steps]

Module(name, description, dependencies, alias, steps, added_by, url) ==
  [name |-> name, description |-> description, dependencies |-> dependencies,
   alias |-> alias, steps |-> steps, added_by |-> added_by, url |-> url]

\* no module: the None that get_module_for_build returns
NoModule == Module(None, None, <<>>, None, FALSE, None, None)

local_module_data_cf_file(module) ==
  Module(None, "Local policy file added using cfbs command line", <<"autorun">>, None, TRUE, MARKER, None)

local_module_data_json_file(module) ==
  Module(None, "Local augments file added using cfbs command line", <<>>, None, TRUE, MARKER, None)

local_module_data_subdir(module) ==
  Module(None, "Local subdirectory added using cfbs command line", <<>>, None, TRUE, MARKER, None)

\* the assertions of _generate_local_module_object
local_module_asserts(module) ==
  /\ StartsWithDotSlash(module)
  /\ EndsWithCf(module) \/ EndsWithJson(module) \/ EndsWithSlash(module)
  /\ module \in fs

generate_local_module_object(module) ==
  IF IsDir(module) THEN local_module_data_subdir(module)
  ELSE IF EndsWithCf(module) THEN local_module_data_cf_file(module)
  ELSE local_module_data_json_file(module)

\* cfbs.internal_file_management.local_module_name: the canonical "./" form
local_module_name(module_path) ==
  IF module_path = "d.json" THEN "./d.json"
  ELSE IF module_path = "f.txt" THEN "./f.txt"
  ELSE module_path

(***************************************************************************)
(* Index.                                                                  *)
(***************************************************************************)
index_contains(idx, key) == key \in DOMAIN idx

index_exists(idx, module) == module \in fs \/ index_contains(idx, module)

\* Index.get_module_object for a name that is not a local reference
index_module_object(idx, name) ==
  Module(name, idx[name].description, idx[name].dependencies,
         idx[name].alias, idx[name].steps, None, None)

\* whether Index.get_module_object returns (its assertions and lookup pass)
get_module_object_ok(idx, name) ==
  IF StartsWithDotSlash(name) THEN local_module_asserts(name)
  ELSE index_contains(idx, name)

get_module_object(idx, name) ==
  IF StartsWithDotSlash(name) THEN generate_local_module_object(name)
  ELSE index_module_object(idx, name)

(***************************************************************************)
(* CFBSJson: a manifest with its "provides" (a sequence of named entries,  *)
(* in the order of the file) and its own index.                            *)
(***************************************************************************)
Config(has_provides, provides, idx) ==
  [has_provides |-> has_provides, provides |-> provides, index |-> idx]

Provided(name, entry) == [name |-> name, data |-> entry]

provides_has(cfg, name) ==
  cfg.has_provides /\ \E i \in DOMAIN cfg.provides : cfg.provides[i].name = name

provides_get(cfg, name) ==
  cfg.provides[CHOOSE i \in DOMAIN cfg.provides : cfg.provides[i].name = name].data

\* whether _construct_provided_module returns (both required keys are there)
provided_module_ok(data) == data.description # None /\ data.steps

construct_provided_module(name, data, url) ==
  Module(name, data.description, data.dependencies, None, data.steps, MARKER, url)

get_module_for_build(cfg, name) ==
  IF provides_has(cfg, name)
  THEN construct_provided_module(name, provides_get(cfg, name), Url)
  ELSE IF index_contains(cfg.index, name)
  THEN get_module_object(cfg.index, name)
  ELSE NoModule

\* whether get_module_for_build returns (no user_error, no failed assertion)
get_module_for_build_status(cfg, name) ==
  IF provides_has(cfg, name)
  THEN IF provided_module_ok(provides_get(cfg, name)) THEN Ok
       ELSE Err("missing_key", <<name>>)
  ELSE IF index_contains(cfg.index, name) /\ ~get_module_object_ok(cfg.index, name)
  THEN Err("AssertionError", <<name>>)
  ELSE Ok

module_is_in_build(b, module) == In(module.name, BuildNames(b))

(***************************************************************************)
(* The attribution given to a call of the add engine: one string for every *)
(* reference, a list with one value per reference, or a dictionary keyed   *)
(* by translated name.                                                     *)
(***************************************************************************)
AddedByStr(s) == [shape |-> "str", val |-> s]

AddedByList(l) == [shape |-> "list", val |-> l]

AddedByDict(d) == [shape |-> "dict", val |-> d]

(***************************************************************************)
(* _add_modules, step by step.                                             *)
(***************************************************************************)
\* Translate all aliases and local paths: the loop over to_add from position
\* i, with what it has translated and printed so far
\* a translation that goes on after a reference that does not exist and
\* names every such reference in its error
RECURSIVE translate_loop_batched(_, _, _, _)
translate_loop_batched(idx, to_add, i, acc) ==
  IF i > Len(to_add) THEN acc
  ELSE LET module == to_add[i] IN
    IF ~index_exists(idx, module)
    THEN translate_loop_batched(idx, to_add, i + 1,
           [acc EXCEPT !.status = Err("does_not_exist", Append(@.names, module))])
    ELSE IF ~index_contains(idx, module) /\ module \in fs
    THEN translate_loop_batched(idx, to_add, i + 1,
           [acc EXCEPT !.translated = Append(@, local_module_name(module))])
    ELSE IF idx[module].alias # None
    THEN translate_loop_batched(idx, to_add, i + 1,
           [acc EXCEPT !.translated = Append(@, idx[module].alias),
                       !.msgs = Append(@, Msg("alias", module, idx[module].alias))])
    ELSE translate_loop_batched(idx, to_add, i + 1,
           [acc EXCEPT !.translated = Append(@, module)])

\* a translation that replaces an alias by its target and prints nothing
RECURSIVE translate_loop_silent(_, _, _, _)
translate_loop_silent(idx, to_add, i, acc) ==
  IF i > Len(to_add) THEN acc
  ELSE LET module == to_add[i] IN
    IF ~index_exists(idx, module)
    THEN [acc EXCEPT !.status = Err("does_not_exist", <<module>>)]
    ELSE IF ~index_contains(idx, module) /\ module \in fs
    THEN translate_loop_silent(idx, to_add, i + 1,
           [acc EXCEPT !.translated = Append(@, local_module_name(module))])
    ELSE IF idx[module].alias # None
    THEN translate_loop_silent(idx, to_add, i + 1,
           [acc EXCEPT !.translated = Append(@, idx[module].alias)])
    ELSE translate_loop_silent(idx, to_add, i + 1,
           [acc EXCEPT !.translated = Append(@, module)])

RECURSIVE translate_loop(_, _, _, _)
translate_loop(idx, to_add, i, acc) ==
  IF i > Len(to_add) THEN acc
  ELSE LET module == to_add[i] IN
    IF ~index_exists(idx, module)
    THEN [acc EXCEPT !.status = Err("does_not_exist", <<module>>)]
    ELSE IF ~index_contains(idx, module) /\ module \in fs
    THEN translate_loop(idx, to_add, i + 1,
           [acc EXCEPT !.translated = Append(@, local_module_name(module))])
    ELSE IF idx[module].alias # None
    THEN translate_loop(idx, to_add, i + 1,
           [acc EXCEPT !.translated = Append(@, idx[module].alias),
                       !.msgs = Append(@, Msg("alias", module, idx[module].alias))])
    ELSE translate_loop(idx, to_add, i + 1,
           [acc EXCEPT !.translated = Append(@, module)])

translate(idx, to_add) ==
  translate_loop(idx, to_add, 1, [translated |-> <<>>, msgs |-> <<>>, status |-> Ok])

\* Convert string -> list
added_by_list(added_by, to_add) ==
  IF added_by.shape = "str" THEN [i \in DOMAIN to_add |-> added_by.val]
  ELSE added_by.val

\* Convert list -> dict: zip(to_add, added_by), a later pair replacing an
\* earlier one with the same key
added_by_dict(to_add, l) ==
  [k \in Range(to_add) |->
     l[CHOOSE i \in DOMAIN to_add :
         to_add[i] = k /\ \A j \in DOMAIN to_add : to_add[j] = k => j <= i]]

\* the translated, non-local names that are not in the index
missing_modules(idx, to_add) ==
  SelectSeq(to_add, LAMBDA m : ~StartsWithDotSlash(m) /\ ~index_contains(idx, m))

\* a promotion that stores whatever attribution the call gives to the name
promote_assign(b, to_add, ab) ==
  [i \in DOMAIN b |->
     IF In(b[i].name, to_add)
     THEN [b[i] EXCEPT !.added_by = ab[b[i].name]]
     ELSE b[i]]

\* If some modules were added as deps previously, mark them as user requested
promote(b, to_add, ab) ==
  [i \in DOMAIN b |->
     IF In(b[i].name, to_add) /\ ab[b[i].name] = MARKER
     THEN [b[i] EXCEPT !.added_by = MARKER]
     ELSE b[i]]

\* Filter modules which are already added: the loop over to_add from i
RECURSIVE filter_loop(_, _, _, _, _)
filter_loop(to_add, ab, added, i, acc) ==
  IF i > Len(to_add) THEN acc
  ELSE LET module == to_add[i]
           user_requested == ab[module] = MARKER
       IN IF In(module, added \o acc.filtered)
          THEN filter_loop(to_add, ab, added, i + 1,
                 [acc EXCEPT !.msgs = IF user_requested
                                      THEN Append(@, Msg("skip", module, None))
                                      ELSE @,
                             !.user_requested = user_requested])
          ELSE filter_loop(to_add, ab, added, i + 1,
                 [acc EXCEPT !.filtered = Append(@, module),
                             !.user_requested = user_requested])

filter_added(to_add, ab, added) ==
  filter_loop(to_add, ab, added, 1,
              [filtered |-> <<>>, msgs |-> <<>>, user_requested |-> FALSE])

\* the inner loop of "Find all unmet dependencies": the dependencies of one
\* module from position j
RECURSIVE deps_of_module(_, _, _, _, _, _)
deps_of_module(module, deps, j, added, filtered, acc) ==
  IF j > Len(deps) THEN acc
  ELSE IF ~In(deps[j], added \o filtered \o acc.dependencies)
  THEN deps_of_module(module, deps, j + 1, added, filtered,
         [acc EXCEPT !.dependencies = Append(@, deps[j]),
                     !.dependencies_added_by = Append(@, module)])
  ELSE deps_of_module(module, deps, j + 1, added, filtered, acc)

\* Find all unmet dependencies: the loop over filtered from position i
RECURSIVE find_dependencies_loop(_, _, _, _, _)
find_dependencies_loop(idx, added, filtered, i, acc) ==
  IF i > Len(filtered) THEN acc
  ELSE LET module == filtered[i] IN
    IF ~index_exists(idx, module) \/ ~get_module_object_ok(idx, module)
    THEN [acc EXCEPT !.status = Err("AssertionError", <<module>>)]
    ELSE LET data == get_module_object(idx, module) IN
      IF data.alias # None
      THEN [acc EXCEPT !.status = Err("AssertionError", <<module>>)]
      ELSE find_dependencies_loop(idx, added, filtered, i + 1,
             deps_of_module(module, data.dependencies, 1, added, filtered, acc))

find_dependencies(idx, added, filtered) ==
  find_dependencies_loop(idx, added, filtered, 1,
    [dependencies |-> <<>>, dependencies_added_by |-> <<>>, status |-> Ok])

\* the module appended for one surviving reference
new_module(idx, module, ab) ==
  [get_module_object(idx, module) EXCEPT !.name = module, !.added_by = ab[module]]

\* the message printed for it
added_message(module, ab, user_requested) ==
  IF user_requested THEN Msg("added", module, None)
  ELSE Msg("dependency", module, ab[module])

\* a final loop that puts each new module at the front of build
RECURSIVE materialize_loop_front(_, _, _, _, _, _)
materialize_loop_front(idx, filtered, ab, user_requested, i, acc) ==
  IF i > Len(filtered) THEN acc
  ELSE LET module == filtered[i] IN
    IF ~index_exists(idx, module) \/ ~get_module_object_ok(idx, module)
    THEN [acc EXCEPT !.status = Err("AssertionError", <<module>>)]
    ELSE materialize_loop_front(idx, filtered, ab, user_requested, i + 1,
           [acc EXCEPT !.build = <<new_module(idx, module, ab)>> \o @,
                       !.msgs = Append(@, added_message(module, ab, user_requested))])

\* the final loop of _add_modules over filtered from position i
RECURSIVE materialize_loop(_, _, _, _, _, _)
materialize_loop(idx, filtered, ab, user_requested, i, acc) ==
  IF i > Len(filtered) THEN acc
  ELSE LET module == filtered[i] IN
    IF ~index_exists(idx, module) \/ ~get_module_object_ok(idx, module)
    THEN [acc EXCEPT !.status = Err("AssertionError", <<module>>)]
    ELSE materialize_loop(idx, filtered, ab, user_requested, i + 1,
           [acc EXCEPT !.build = Append(@, new_module(idx, module, ab)),
                       !.msgs = Append(@, added_message(module, ab, user_requested))])

(***************************************************************************)
(* add_with_dependencies.  cfg is the manifest "remote_config or self"     *)
(* whose get_module_for_build resolves the names.                          *)
(***************************************************************************)
RECURSIVE add_with_dependencies(_, _, _, _, _)
RECURSIVE add_with_dependencies_str(_, _, _, _, _)
RECURSIVE add_dependencies_loop(_, _, _, _, _, _)

\* a traversal that appends the module before it visits its dependencies
add_with_dependencies_preorder(cfg, b, module, dependent, depth) ==
  IF depth > MaxDepth THEN Result(b, <<>>, Err("RecursionError", <<>>))
  ELSE IF module.name = None \/ ~module.steps
  THEN Result(b, <<>>, Err("AssertionError", <<module.name>>))
  ELSE IF module_is_in_build(b, module)
  THEN Result(b, <<Msg("skip_added", module.name, None)>>, Ok)
  ELSE add_dependencies_loop(cfg, module.dependencies, 1, module.name, depth,
         Result(Append(b, module),
                <<IF dependent # None
                  THEN Msg("dependency", module.name, dependent)
                  ELSE Msg("added", module.name, None)>>,
                Ok))

\* the call with a module object
add_with_dependencies(cfg, b, module, dependent, depth) ==
  IF depth > MaxDepth THEN Result(b, <<>>, Err("RecursionError", <<>>))
  ELSE IF module.name = None \/ ~module.steps
  THEN Result(b, <<>>, Err("AssertionError", <<module.name>>))
  ELSE IF module_is_in_build(b, module)
  THEN Result(b, <<Msg("skip_added", module.name, None)>>, Ok)
  ELSE LET deps == add_dependencies_loop(cfg, module.dependencies, 1,
                                         module.name, depth, Result(b, <<>>, Ok))
       IN IF deps.status.kind # "ok" THEN deps
          ELSE Result(Append(deps.build, module),
                      Append(deps.msgs,
                             IF dependent # None
                             THEN Msg("dependency", module.name, dependent)
                             ELSE Msg("added", module.name, None)),
                      Ok)

\* the call with a name: resolve it first
add_with_dependencies_str(cfg, b, module_str, dependent, depth) ==
  IF depth > MaxDepth THEN Result(b, <<>>, Err("RecursionError", <<>>))
  ELSE IF get_module_for_build_status(cfg, module_str).kind # "ok"
  THEN Result(b, <<>>, get_module_for_build_status(cfg, module_str))
  ELSE IF get_module_for_build(cfg, module_str) = NoModule
  THEN Result(b, <<>>, Err("not_found", <<module_str>>))
  ELSE add_with_dependencies(cfg, b, get_module_for_build(cfg, module_str),
                             dependent, depth)

\* for dep in module["dependencies"], from position j
add_dependencies_loop(cfg, deps, j, name, depth, acc) ==
  IF j > Len(deps) THEN acc
  ELSE LET r == add_with_dependencies_str(cfg, acc.build, deps[j], name, depth + 1)
       IN IF r.status.kind # "ok"
          THEN Result(r.build, acc.msgs \o r.msgs, r.status)
          ELSE add_dependencies_loop(cfg, deps, j + 1, name, depth,
                                     Result(r.build, acc.msgs \o r.msgs, Ok))

(***************************************************************************)
(* _add_using_url.  env is what the outside gives to the call: the remote  *)
(* manifest fetched from the URL, the non-interactive flag and the answer  *)
(* typed at the prompt.                                                    *)
(***************************************************************************)
Env(remote, non_interactive, answer) ==
  [remote |-> remote, non_interactive |-> non_interactive, answer |-> answer]

\* CFBSJson.get_provides: the first definition it cannot construct, if any
get_provides_status(cfg) ==
  IF ~cfg.has_provides THEN Err("missing_key", <<"provides">>)
  ELSE IF \E i \in DOMAIN cfg.provides : ~provided_module_ok(cfg.provides[i].data)
  THEN Err("missing_key",
           <<cfg.provides[CHOOSE i \in DOMAIN cfg.provides :
                /\ ~provided_module_ok(cfg.provides[i].data)
                /\ \A j \in 1..(i - 1) : provided_module_ok(cfg.provides[j].data)].name>>)
  ELSE Ok

\* CFBSJson.get_provides: the modules, in the order of the file
get_provides(cfg) ==
  [i \in DOMAIN cfg.provides |->
     construct_provided_module(cfg.provides[i].name, cfg.provides[i].data, Url)]

\* for module in modules: self.add_with_dependencies(module, remote_config)
RECURSIVE add_selected_loop(_, _, _, _, _)
add_selected_loop(cfg, modules, i, depth, acc) ==
  IF i > Len(modules) THEN acc
  ELSE LET r == add_with_dependencies(cfg, acc.build, modules[i], None, depth + 1)
       IN IF r.status.kind # "ok"
          THEN Result(r.build, acc.msgs \o r.msgs, r.status)
          ELSE add_selected_loop(cfg, modules, i + 1, depth,
                                 Result(r.build, acc.msgs \o r.msgs, Ok))

\* a list of missing names that stops at the first one
missing_provided_first(cfg, to_add) ==
  LET all == SelectSeq(to_add, LAMBDA k : ~provides_has(cfg, k))
  IN IF all = <<>> THEN <<>> ELSE <<Head(all)>>

\* missing = [k for k in to_add if k not in provides]
missing_provided(cfg, to_add) ==
  SelectSeq(to_add, LAMBDA k : ~provides_has(cfg, k))

add_using_url(env, b, to_add, depth) ==
  LET cfg == env.remote
      provides == get_provides(cfg)
      listed == [i \in DOMAIN provides |-> Msg("listed", provides[i].name, None)]
      missing == missing_provided(cfg, to_add)
      named == [i \in DOMAIN to_add |->
                  construct_provided_module(to_add[i], provides_get(cfg, to_add[i]), Url)]
  IN IF get_provides_status(cfg).kind # "ok"
     THEN Result(b, <<>>, get_provides_status(cfg))
     ELSE IF Len(to_add) = 0
     THEN IF Len(provides) = 0
          THEN Result(b, listed, Err("no_modules", <<>>))
          ELSE IF ~env.non_interactive /\ env.answer \notin {"y", "yes"}
          THEN Result(b, listed, Ok)
          ELSE add_selected_loop(cfg, provides, 1, depth, Result(b, listed, Ok))
     ELSE IF missing # <<>>
     THEN Result(b, <<>>, Err("missing_modules", missing))
     ELSE add_selected_loop(cfg, named, 1, depth, Result(b, <<>>, Ok))

(***************************************************************************)
(* add_command and _add_modules.                                           *)
(***************************************************************************)
RECURSIVE add_command(_, _, _, _, _, _)
RECURSIVE add_modules(_, _, _, _, _, _)

add_modules(idx, env, b, to_add0, added_by0, depth) ==
  LET tr == translate(idx, to_add0)
      to_add == tr.translated
      l == added_by_list(added_by0, to_add)
  IN IF tr.status.kind # "ok" THEN Result(b, tr.msgs, tr.status)
     ELSE IF added_by0.shape # "dict" /\ Len(l) # Len(to_add)
     THEN Result(b, tr.msgs, Err("AssertionError", <<>>))
     ELSE IF added_by0.shape = "dict" /\ ~(Range(to_add) \subseteq DOMAIN added_by0.val)
     THEN Result(b, tr.msgs, Err("AssertionError", <<>>))
     ELSE IF missing_modules(idx, to_add) # <<>>
     THEN Result(b, tr.msgs, Err("could_not_be_found", missing_modules(idx, to_add)))
     ELSE
       LET ab == IF added_by0.shape = "dict" THEN added_by0.val
                 ELSE added_by_dict(to_add, l)
           promoted == promote(b, to_add, ab)
           added == BuildNames(promoted)
           f == filter_added(to_add, ab, added)
           d == find_dependencies(idx, added, f.filtered)
           msgs1 == tr.msgs \o f.msgs
       IN IF d.status.kind # "ok" THEN Result(promoted, msgs1, d.status)
          ELSE
            LET rec == IF d.dependencies # <<>>
                       THEN add_command(idx, env, promoted, d.dependencies,
                                        AddedByList(d.dependencies_added_by),
                                        depth + 1)
                       ELSE Result(promoted, <<>>, Ok)
            IN IF rec.status.kind # "ok"
               THEN Result(rec.build, msgs1 \o rec.msgs, rec.status)
               ELSE materialize_loop(idx, f.filtered, ab, f.user_requested, 1,
                                     Result(rec.build, msgs1 \o rec.msgs, Ok))

add_command(idx, env, b, to_add, added_by, depth) ==
  IF depth > MaxDepth THEN Result(b, <<>>, Err("RecursionError", <<>>))
  ELSE IF to_add = <<>> THEN Result(b, <<>>, Err("must_specify", <<>>))
  ELSE IF IsUrl(to_add[1]) THEN add_using_url(env, b, Tail(to_add), depth)
  ELSE add_modules(idx, env, b, to_add, added_by, depth)

(***************************************************************************)
(* The catalogs the model ranges over.                                     *)
(***************************************************************************)
\* names the catalog entry a may list as its dependency
DepNames == {"a", "b", "c", "al", "x"}

\* the dependency lists of the three ordinary entries: a depends on nothing
\* or on any one name, b on nothing or on a, c on b
DepLists ==
  [a : {<<>>} \cup {<<n>> : n \in DepNames},
   b : {<<>>, <<"a">>},
   c : {<<"b">>}]

\* the alias entries of every catalog: al redirects to b, al2 to the alias
\* al, bad to a name that is no key
Aliases == [al |-> "b", al2 |-> "al", bad |-> "x"]

Catalog(deps) ==
  [k \in Keys \cup DOMAIN Aliases |->
     IF k \in Keys THEN Entry(k, deps[k], None, TRUE)
     ELSE Entry(k, <<>>, Aliases[k], FALSE)]

Catalogs == {Catalog(deps) : deps \in DepLists}

\* the catalogs in which a has no dependency
PlainCatalogs == {c \in Catalogs : c["a"].dependencies = <<>>}

\* a catalog with the one ordinary entry a: its alias al has no target
SmallCatalog ==
  [k \in {"a"} \cup DOMAIN Aliases |->
     IF k = "a" THEN Entry(k, <<>>, None, TRUE)
     ELSE Entry(k, <<>>, Aliases[k], FALSE)]

\* the projects: those that add by reference from a catalog, one that also
\* has local files, and those that add from remote sources
Projects ==
  {[path |-> "B", fs |-> {}, index |-> c] : c \in Catalogs}
  \cup {[path |-> "B", fs |-> LocalFile \cup TextFile, index |-> SmallCatalog]}
  \cup {[path |-> "A", fs |-> {}, index |-> c] : c \in PlainCatalogs}

\* the index a fetched manifest gets (it carries no "index" key): the default
\* index, which has the key a as every catalog above has, with other data,
\* and the alias al of a
DefaultIndex ==
  [k \in {"a", "al"} |->
     IF k = "a" THEN Entry("a@default", <<>>, None, TRUE)
     ELSE Entry(k, <<>>, "a", FALSE)]

\* an entry of "provides" with both required keys
Provides(name, dependencies) == Provided(name, Entry(name, dependencies, None, TRUE))

\* the remote manifests a URL may hold: r and s independent, r depending on
\* s, on itself, on s which depends on r, on a key of the default index, on
\* an alias entry of the default index, on a key of the catalog only, on a
\* name nobody has; r depending on a provided entry that declares an alias;
\* r alone; a module with the name of a key of the default index; nothing
\* provided; an entry with no "steps"; no "provides" at all
Remotes ==
  {Config(TRUE, <<Provides("r", d), Provides("s", <<>>)>>, DefaultIndex) :
     d \in {<<>>, <<"s">>, <<"r">>, <<"a">>, <<"al">>, <<"b">>, <<"x">>}}
  \cup
  {Config(TRUE, <<Provides("r", <<"s">>), Provides("s", <<"r">>)>>, DefaultIndex),
   Config(TRUE, <<Provides("r", <<"ra">>),
                  Provided("ra", Entry("ra", <<>>, "s", TRUE))>>, DefaultIndex),
   Config(TRUE, <<Provides("r", <<>>)>>, DefaultIndex),
   Config(TRUE, <<Provides("a", <<>>)>>, DefaultIndex),
   Config(TRUE, <<>>, DefaultIndex),
   Config(TRUE, <<Provides("r", <<>>),
                  Provided("s", Entry("s", <<>>, None, FALSE))>>, DefaultIndex),
   Config(FALSE, <<>>, DefaultIndex)}

\* names that may be given after the URL
RemoteRefs == {"r", "s", "q"}

\* what the outside gives to a remote add without names: the manifest, the
\* flag and, when a prompt is shown, the answer
BulkEnvs ==
  {Env(remote, TRUE, "n") : remote \in Remotes}
  \cup {Env(remote, FALSE, answer) : remote \in Remotes, answer \in {"y", "n"}}

\* what the outside gives to a remote add with names: no prompt is shown
NamedEnvs == {Env(remote, TRUE, "n") : remote \in Remotes}

\* the lists of names given after the URL
NameLists == SeqsUpTo(RemoteRefs, MaxBatch)

\* no remote manifest: the environment of a direct add
NoEnv == Env(Config(FALSE, <<>>, DefaultIndex), TRUE, "n")

\* batches of references of a direct add
Batches == SeqsUpTo(Refs, MaxBatch)

\* one call of add_command: the way of adding it uses, its arguments
\* to_add and added_by, and what the outside gives to the call
Request(p, op, to_add, added_by, env) ==
  [path |-> p, op |-> op, to_add |-> to_add, added_by |-> added_by, env |-> env]

\* the runs of the command, which calls add_command with the default
\* added_by: direct adds of every batch, remote adds without names and
\* remote adds with names
Requests ==
  {Request("B", "add", to_add, AddedByStr(MARKER), NoEnv) : to_add \in Batches}
  \cup {Request("A", "add_url", <<Url>>, AddedByStr(MARKER), env) : env \in BulkEnvs}
  \cup {Request("A", "add_url", <<Url>> \o names, AddedByStr(MARKER), env) :
           names \in NameLists \ {<<>>}, env \in NamedEnvs}

\* the attributions a caller of add_command may give: the marker or the
\* name of a module
Attributions == {MARKER, "c"}

\* references of a direct add made by a caller that chooses added_by
ApiRefs == {"a", "b", "al", "x"}

\* the values of added_by such a caller may give for to_add: a string, a list
\* of the length of to_add or one shorter, a dictionary over the references
\* or over the keys a and b
AddedBys(to_add) ==
  {AddedByStr(v) : v \in Attributions}
  \cup {AddedByList(l) : l \in [1..Len(to_add) -> Attributions]}
  \cup {AddedByList(l) : l \in [1..(Len(to_add) - 1) -> Attributions]}
  \cup {AddedByDict(d) : d \in [Range(to_add) -> Attributions]}
  \cup {AddedByDict(d) : d \in [{"a", "b"} -> Attributions]}

\* the direct adds of such a caller
ApiRequests ==
  UNION {{Request("B", "add", to_add, added_by, NoEnv) : added_by \in AddedBys(to_add)} :
           to_add \in SeqsUpTo(ApiRefs, MaxBatch)}

(***************************************************************************)
(* State.  index is the catalog of the manifest, fs the paths that exist   *)
(* on the filesystem, build the in-memory build list of the manifest and   *)
(* persisted the build list of cfbs.json on disk.  One process    *)
(* loads the manifest, runs one add and saves when the add returned: pc is *)
(* where that process is.  last records the add of the process: its kind,  *)
(* arguments, the build list before it, how it ended and what it printed.  *)
(* path is the way this project adds its modules: "B", by reference from   *)
(* the catalog and the filesystem, or "A", from remote sources.            *)
(***************************************************************************)
Last(op, to_add, added_by, env, pre, status, msgs) ==
  [op |-> op, to_add |-> to_add, added_by |-> added_by, env |-> env, pre |-> pre,
   status |-> status, msgs |-> msgs]

NoLast == Last("none", <<>>, AddedByStr(MARKER), NoEnv, <<>>, Ok, <<>>)

Init ==
  /\ \E p \in Projects : path = p.path /\ fs = p.fs /\ index = p.index
  /\ build = <<>>
  /\ persisted = <<>>
  /\ pc = "loaded"
  /\ last = NoLast

\* an add that writes cfbs.json itself when it ends
AddEffect_saving(op, to_add, added_by, env) ==
  LET r == add_command(index, env, build, to_add, added_by, 1)
  IN /\ build' = r.build
     /\ persisted' = r.build
     /\ pc' = IF r.status.kind = "ok" THEN "added" ELSE "failed"
     /\ last' = Last(op, to_add, added_by, env, build, r.status, r.msgs)
     /\ UNCHANGED <<index, fs, path>>

\* the effect of one top-level add_command on the state
AddEffect(op, to_add, added_by, env) ==
  LET r == add_command(index, env, build, to_add, added_by, 1)
  IN /\ build' = r.build
     /\ pc' = IF r.status.kind = "ok" THEN "added" ELSE "failed"
     /\ last' = Last(op, to_add, added_by, env, build, r.status, r.msgs)
     /\ UNCHANGED <<index, fs, path, persisted>>

\* cfbs add <references> (a direct add, Path B) or cfbs add <url> <names> (a
\* remote add, Path A): the process calls add_command once
Add(req) ==
  /\ path = req.path
  /\ pc = "loaded"
  /\ AddEffect(req.op, req.to_add, req.added_by, req.env)

\* CFBSConfig.save, called by the command after add_command returned
Save ==
  /\ pc = "added"
  /\ persisted' = build
  /\ pc' = "saved"
  /\ last' = NoLast
  /\ UNCHANGED <<index, fs, path, build>>

\* the process has ended; a new one reads cfbs.json: CFBSConfig()
Load ==
  /\ pc # "loaded"
  /\ build' = persisted
  /\ pc' = "loaded"
  /\ last' = NoLast
  /\ UNCHANGED <<index, fs, path, persisted>>

Next ==
  \/ \E req \in Requests : Add(req)
  \/ Save
  \/ Load

Spec == Init /\ [][Next]_vars

\* the projects in which add_command is called with every shape of added_by
InitApi == Init /\ path = "B"

NextApi ==
  \/ \E req \in ApiRequests : Add(req)
  \/ Save
  \/ Load

SpecApi == InitApi /\ [][NextApi]_vars

(***************************************************************************)
(* Properties.                                                             *)
(***************************************************************************)
\* the process has run an add
IsAdd == last.op \in {"add", "add_url"}

\* no two entries of b have the same name
NoDuplicates(b) ==
  \A i, j \in DOMAIN b : i # j => b[i].name # b[j].name

\* every dependency of an entry of b is the name of an earlier entry
DependenciesBefore(b) ==
  \A i \in DOMAIN b : \A k \in DOMAIN b[i].dependencies :
    \E j \in 1..(i - 1) : b[j].name = b[i].dependencies[k]

\* every dependency of an entry of b is the name of some entry
DependencyClosed(b) ==
  \A i \in DOMAIN b : \A k \in DOMAIN b[i].dependencies :
    In(b[i].dependencies[k], BuildNames(b))

\* C1: a build list that every add so far left by returning has no two
\* entries with the same name.
C1_NoDuplicateNames == pc # "failed" => NoDuplicates(build)

\* C2: after a direct add that returned on an empty build list, every
\* dependency of an entry is the name of an entry at a smaller position.
C2_DependenciesFirst ==
  (pc = "added" /\ last.op = "add" /\ last.pre = <<>>) => DependenciesBefore(build)

\* C3: after an add that returned on a dependency-closed build list, the
\* build list is dependency-closed.
C3_DependencyClosure ==
  (pc = "added" /\ IsAdd /\ DependencyClosed(last.pre)) => DependencyClosed(build)

\* the positions of b whose entry has the name n
Positions(b, n) == {i \in DOMAIN b : b[i].name = n}

\* C4: an entry that a direct add names is stored with the user-requested
\* marker when the add has returned, and no add changes the name or the
\* attribution of an entry that carries the user-requested marker.
C4_PromotionOneWay ==
  /\ (pc = "added" /\ last.op = "add") =>
       \A i \in DOMAIN last.pre :
         In(last.pre[i].name, last.to_add) => build[i].added_by = MARKER
  /\ IsAdd =>
       \A i \in DOMAIN last.pre :
         last.pre[i].added_by = MARKER =>
           /\ i \in DOMAIN build
           /\ build[i].name = last.pre[i].name
           /\ build[i].added_by = MARKER

\* an entry that came in as the dependency of a module was named by a direct
\* add and carries the marker now, next to an entry that carried it before
C4_Witness ==
  /\ pc = "added" /\ last.op = "add"
  /\ \E i \in DOMAIN last.pre :
       /\ last.pre[i].added_by \notin {MARKER, None}
       /\ In(last.pre[i].name, last.to_add)
       /\ build[i].added_by = MARKER
  /\ \E j \in DOMAIN last.pre : last.pre[j].added_by = MARKER

\* the names the add of the process asks for: the translated references of
\* a direct add, the names given after the URL, or every provided module
\* when none is given and the add goes on
RequestedNames ==
  IF last.op = "add" THEN Range(translate(index, last.to_add).translated)
  ELSE IF last.op # "add_url" THEN {}
  ELSE IF Len(last.to_add) > 1 THEN Range(Tail(last.to_add))
  ELSE IF ~last.env.non_interactive /\ last.env.answer \notin {"y", "yes"} THEN {}
  ELSE {last.env.remote.provides[i].name : i \in DOMAIN last.env.remote.provides}

\* the same request, run again by the next process on the saved build list
SecondRun ==
  add_command(index, last.env, build, last.to_add, AddedByStr(MARKER), 1)

\* C5: when an add has returned, build holds exactly one entry for each
\* requested name, and the same request run again returns, appends nothing
\* and prints a skip notice for each requested name.
C5_Idempotent ==
  (pc = "added" /\ IsAdd) =>
    /\ \A n \in RequestedNames : Cardinality(Positions(build, n)) = 1
    /\ SecondRun.status.kind = "ok"
    /\ BuildNames(SecondRun.build) = BuildNames(build)
    /\ \A n \in RequestedNames :
         \E k \in DOMAIN SecondRun.msgs :
           /\ SecondRun.msgs[k].kind \in {"skip", "skip_added"}
           /\ SecondRun.msgs[k].module = n

\* the add named an alias whose target is an ordinary entry of the catalog
NamedAlias(typed) ==
  /\ In(typed, last.to_add)
  /\ index_contains(index, typed)
  /\ index[typed].alias # None
  /\ index_contains(index, index[typed].alias)
  /\ index[index[typed].alias].alias = None

\* the entries the add of the process appended
Appended == SubSeq(build, Len(last.pre) + 1, Len(build))

\* C6: after a direct add of an alias of an ordinary catalog entry has
\* returned, the substitution notice was printed, no appended entry has the
\* alias name, build has an entry with the target's name and data, and that
\* entry was appended by this add unless the target was in build before.
C6_AliasTransparency ==
  (pc = "added" /\ last.op = "add") =>
    \A typed \in Range(last.to_add) : NamedAlias(typed) =>
      LET target == index[typed].alias IN
      /\ In(Msg("alias", typed, target), last.msgs)
      /\ ~In(typed, BuildNames(Appended))
      /\ \E i \in DOMAIN build :
           /\ build[i].name = target
           /\ build[i].description = index[target].description
           /\ build[i].dependencies = index[target].dependencies
           /\ build[i].alias = None
      /\ ~In(target, BuildNames(last.pre)) => In(target, BuildNames(Appended))

\* the alias al was typed on a build list without its target b, and the
\* appended entry is b
C6_Witness ==
  /\ pc = "added" /\ last.op = "add"
  /\ NamedAlias("al")
  /\ ~In("b", BuildNames(last.pre))
  /\ In("b", BuildNames(Appended))

\* the references of the batch that are neither catalog keys nor paths
NotFoundRefs == {r \in Range(last.to_add) : ~index_exists(index, r)}

\* C7: a direct add of a batch with two or more references that are neither
\* catalog keys nor existing paths fails with an error that names each of
\* them, and leaves build as it was.
C7_BatchedMissing ==
  (last.op = "add" /\ Cardinality(NotFoundRefs) >= 2) =>
    /\ pc = "failed"
    /\ NotFoundRefs \subseteq Range(last.status.names)
    /\ build = last.pre

\* C8: no add ends by exhausting the interpreter's recursion limit.
C8_Terminates == IsAdd => last.status.kind # "RecursionError"

\* C9: an add, returned or failed, leaves cfbs.json as it was when the
\* process read it.
C9_NoPartialPersistence ==
  pc \in {"added", "failed"} => persisted = last.pre

\* an add ended in a user error after it had changed the build list in memory
C9_Witness ==
  /\ pc = "failed"
  /\ last.status.kind \in {"does_not_exist", "could_not_be_found", "not_found",
                           "missing_key", "missing_modules", "no_modules"}
  /\ build # last.pre
  /\ persisted = last.pre

\* the names given after the URL that the remote manifest does not provide
NotProvided ==
  SelectSeq(Tail(last.to_add), LAMBDA k : ~provides_has(last.env.remote, k))

\* C10: a remote add with names of which one is not provided by the remote
\* manifest fails with the error that lists every such name, in the order
\* given, and leaves build as it was.
C10_MissingProvided ==
  (/\ last.op = "add_url"
   /\ get_provides_status(last.env.remote).kind = "ok"
   /\ NotProvided # <<>>) =>
    /\ pc = "failed"
    /\ last.status = Err("missing_modules", NotProvided)
    /\ build = last.pre

\* a provided name and a name that is not provided were given together
C10_Witness ==
  /\ last.op = "add_url" /\ pc = "failed"
  /\ last.status.kind = "missing_modules"
  /\ Len(last.to_add) = 3
  /\ provides_has(last.env.remote, last.to_add[2])
  /\ ~provides_has(last.env.remote, last.to_add[3])
  /\ build = last.pre

\* the process ran a remote add without names on a manifest whose "provides"
\* could be read
BulkAdd ==
  /\ last.op = "add_url"
  /\ Len(last.to_add) = 1
  /\ get_provides_status(last.env.remote).kind = "ok"

\* the prompt was not shown, or the user answered yes
Confirmed == last.env.non_interactive \/ last.env.answer \in {"y", "yes"}

\* C11: after a remote add without names: when nothing is provided the add
\* has failed and build is as before; when the user declined build is as
\* before; when the add went on and returned, every provided module is the
\* name of a build entry whose added_by is the user-requested marker.
C11_BulkRemoteAdd ==
  BulkAdd =>
    IF last.env.remote.provides = <<>>
    THEN pc = "failed" /\ build = last.pre
    ELSE IF ~Confirmed
    THEN pc = "added" /\ build = last.pre
    ELSE pc = "added" =>
           \A i \in DOMAIN last.env.remote.provides :
             \E k \in DOMAIN build :
               /\ build[k].name = last.env.remote.provides[i].name
               /\ build[k].added_by = MARKER

\* what exists is specified to return for a name: an existing path that ends
\* in .cf, .json or /, or a key of the catalog
ExistsAsSpecified(name) ==
  \/ name \in fs /\ (EndsWithCf(name) \/ EndsWithJson(name) \/ EndsWithSlash(name))
  \/ index_contains(index, name)

\* C12: for every reference a direct add looked up, Index.exists is true
\* exactly when the reference is an existing path ending in .cf, .json or /
\* or a key of the catalog.
C12_ExistsIffLocalOrKey ==
  last.op = "add" =>
    \A name \in Range(last.to_add) :
      index_exists(index, name) <=> ExistsAsSpecified(name)

\* the entry of the catalog, of the remote index or of the remote "provides"
\* that the appended build entry e was made from declares an alias
MadeFromAlias(e) ==
  IF last.op = "add"
  THEN index_contains(index, e.name) /\ index[e.name].alias # None
  ELSE IF e.url # None
  THEN provides_has(last.env.remote, e.name)
       /\ provides_get(last.env.remote, e.name).alias # None
  ELSE index_contains(last.env.remote.index, e.name)
       /\ last.env.remote.index[e.name].alias # None

\* C13: no entry that an add appended to build, by either path, has an alias
\* key or was made from an entry that declares an alias.
C13_NoAliasMaterialized ==
  IsAdd =>
    \A i \in DOMAIN Appended :
      Appended[i].alias = None /\ ~MadeFromAlias(Appended[i])

\* the process ran a remote add, with or without names
IsRemoteAdd == last.op = "add_url"

\* C14: among the entries a returned remote add appended, one selected at the
\* top level carries the user-requested marker and any other one carries
\* the name of an appended module that lists it as a dependency.
C14_RemoteDependencyAttribution ==
  (IsRemoteAdd /\ pc = "added") =>
    \A i \in DOMAIN Appended :
      IF Appended[i].name \in RequestedNames
      THEN Appended[i].added_by = MARKER
      ELSE \E k \in DOMAIN Appended :
             /\ In(Appended[i].name, Appended[k].dependencies)
             /\ Appended[i].added_by = Appended[k].name

\* C15: in a remote add, an appended entry whose name is provided by the
\* remote manifest is the provided module; any other appended entry is the
\* entry of that name of the local catalog; and the add fails with "not
\* found" only for a name that is neither provided nor a key of the local
\* catalog.
C15_DependencySource ==
  IsRemoteAdd =>
    /\ \A i \in DOMAIN Appended :
         IF provides_has(last.env.remote, Appended[i].name)
         THEN Appended[i].url = Url
         ELSE /\ index_contains(index, Appended[i].name)
              /\ Appended[i].description = index[Appended[i].name].description
              /\ Appended[i].dependencies = index[Appended[i].name].dependencies
    /\ last.status.kind = "not_found" =>
         \A k \in DOMAIN last.status.names :
           /\ ~provides_has(last.env.remote, last.status.names[k])
           /\ ~index_contains(index, last.status.names[k])

\* the remote add named one provided module that was in build already
SkippedOne ==
  /\ IsRemoteAdd
  /\ Len(last.to_add) = 2
  /\ get_provides_status(last.env.remote).kind = "ok"
  /\ provides_has(last.env.remote, last.to_add[2])
  /\ In(last.to_add[2], BuildNames(last.pre))

\* C16: every entry a remote add appended, whether the add returned or
\* failed later, stands after an entry for each name in its dependencies;
\* and a remote add of one module that is in build already returns with the
\* skip notice alone and build as it was, whatever that module depends on.
C16_PostOrder ==
  /\ IsRemoteAdd =>
       \A i \in DOMAIN build : i > Len(last.pre) =>
         \A k \in DOMAIN build[i].dependencies :
           \E j \in 1..(i - 1) : build[j].name = build[i].dependencies[k]
  /\ SkippedOne =>
       /\ pc = "added"
       /\ build = last.pre
       /\ last.msgs = <<Msg("skip_added", last.to_add[2], None)>>

\* a remote add appended a module after the dependency it brought in, and
\* skipped that dependency when its turn came
C16_Witness ==
  /\ IsRemoteAdd /\ pc = "added"
  /\ \E i \in DOMAIN build :
       /\ i > Len(last.pre) + 1
       /\ build[i].dependencies # <<>>
       /\ In(Msg("dependency", build[i - 1].name, build[i].name), last.msgs)
       /\ In(Msg("skip_added", build[i - 1].name, None), last.msgs)

\* the translated references of the direct add of the process
TopLevelNames == Range(translate(index, last.to_add).translated)

\* the names the entry m asks for: its dependencies, an alias among them
\* read as its target
DependencyTargets(m) ==
  {IF index_contains(index, m.dependencies[k]) /\ index[m.dependencies[k]].alias # None
   THEN index[m.dependencies[k]].alias
   ELSE m.dependencies[k] : k \in DOMAIN m.dependencies}

\* C17: among the entries a returned direct add appended, an entry carries
\* the user-requested marker exactly when its name is a translated
\* reference of the request, and any other entry carries the name of a
\* build entry that asks for it as a dependency.
C17_DirectAttribution ==
  (pc = "added" /\ last.op = "add") =>
    \A i \in DOMAIN Appended :
      /\ Appended[i].added_by = MARKER <=> Appended[i].name \in TopLevelNames
      /\ Appended[i].name \notin TopLevelNames =>
           \E k \in DOMAIN build :
             /\ build[k].name = Appended[i].added_by
             /\ Appended[i].name \in DependencyTargets(build[k])

\* C18: after every add, returned or failed, build is the build list before
\* it, each entry as it was or with added_by set to the user-requested
\* marker, followed by the entries the add appended.
C18_Frame ==
  IsAdd =>
    /\ Len(build) >= Len(last.pre)
    /\ \A i \in DOMAIN last.pre :
         \/ build[i] = last.pre[i]
         \/ build[i] = [last.pre[i] EXCEPT !.added_by = MARKER]

\* an add promoted an entry and appended another one
C18_Witness ==
  /\ IsAdd /\ pc = "added"
  /\ Len(build) > Len(last.pre)
  /\ \E i \in DOMAIN last.pre : build[i] # last.pre[i]

\* the position of the first reference of the request that is neither an
\* existing path nor a catalog key
FirstNotFound ==
  CHOOSE k \in DOMAIN last.to_add :
    /\ ~index_exists(index, last.to_add[k])
    /\ \A j \in 1..(k - 1) : index_exists(index, last.to_add[j])

\* C19: a direct add with a reference that is neither an existing path nor
\* a catalog key fails with the error that names the first such reference
\* alone, has printed the notices of the references before it only, and
\* leaves build as it was; and the batched error is given only when every
\* reference exists, lists the translated names that are neither local nor
\* catalog keys (targets of aliases), and leaves build as it was.
C19_TranslateFailFast ==
  last.op = "add" =>
    /\ NotFoundRefs # {} =>
         /\ pc = "failed"
         /\ last.status = Err("does_not_exist", <<last.to_add[FirstNotFound]>>)
         /\ last.msgs = translate(index, SubSeq(last.to_add, 1, FirstNotFound - 1)).msgs
         /\ build = last.pre
    /\ last.status.kind = "could_not_be_found" =>
         /\ NotFoundRefs = {}
         /\ last.status.names # <<>>
         /\ \A k \in DOMAIN last.status.names :
              /\ ~StartsWithDotSlash(last.status.names[k])
              /\ ~index_contains(index, last.status.names[k])
              /\ \E j \in DOMAIN last.to_add :
                   /\ index_contains(index, last.to_add[j])
                   /\ index[last.to_add[j]].alias = last.status.names[k]
         /\ build = last.pre

\* the first reference does not exist and the second, an alias, was not
\* examined: its notice was not printed
C19_Witness ==
  /\ last.op = "add" /\ pc = "failed"
  /\ Len(last.to_add) = 2
  /\ ~index_exists(index, last.to_add[1])
  /\ index_contains(index, last.to_add[2])
  /\ index[last.to_add[2]].alias # None
  /\ last.status = Err("does_not_exist", <<last.to_add[1]>>)
  /\ last.msgs = <<>>

\* the message due to the appended entry e: the plain one
\* when its attribution is the user-requested marker, the dependency one
\* with its attribution otherwise
MessageFor(e) ==
  IF e.added_by = MARKER THEN Msg("added", e.name, None)
  ELSE Msg("dependency", e.name, e.added_by)

\* the messages about appended modules, in the order printed
AddedMessages ==
  SelectSeq(last.msgs, LAMBDA m : m.kind \in {"added", "dependency"})

\* C20: when a direct add has returned, the messages it printed for the
\* modules it appended are, in the order of the appends, the plain message
\* for an entry whose attribution is the user-requested marker and the
\* dependency message with the entry's attribution otherwise.
C20_MaterializeMessage ==
  (pc = "added" /\ last.op = "add") =>
    AddedMessages = [i \in DOMAIN Appended |-> MessageFor(Appended[i])]
====
